---- MODULE Spec2Model ----
(***************************************************************************)
(* Model of the Premalatha Collections service: the two iterations of the  *)
(* program, src/test.py and src/ai_api.py.  Each is a FastAPI application  *)
(* (HTTP routes) that also runs a Telegram bot whose handlers keep a       *)
(* per-user session in the module-level dictionary user_sessions and call  *)
(* a remote model through Crew(...).kickoff().                             *)
(*                                                                         *)
(* Strings are sequences of one-character strings, so that str.replace     *)
(* and str.strip are computed the way Python computes them.                *)
(*                                                                         *)
(* The bot's handlers are atomic actions: both files build the Application *)
(* with ApplicationBuilder().token(...).build() (no concurrent_updates)    *)
(* and register every handler blocking, so the SDK processes one update    *)
(* to completion before it takes the next.  SpecInterleaved runs the same  *)
(* handlers as coroutines that give way at every await, for the claims     *)
(* made about such interleavings.                                          *)
(***************************************************************************)
EXTENDS Integers, Sequences, FiniteSets, Bags, TLC

VARIABLES
    variant,        \* which program runs: "test" (src/test.py) or "ai_api" (src/ai_api.py)
    user_sessions,  \* the dict user_sessions: a function whose DOMAIN is its key set
    out,            \* what the latest handled event did: replies sent, model calls, HTTP response
    flow,           \* history: per user, what happened since the user's latest mode selection
    fmt_raw,        \* the text the remote model returned (post-processing specification)
    fmt_out,        \* the value a run_* function returned for fmt_raw
    objs,           \* interleaved handlers: per user, the session dicts alive, oldest first
    tasks,          \* interleaved handlers: the bag of handlers suspended at an await
    pending         \* history: per user, the dict of a mode selection no later event has used

vars == <<variant, user_sessions, out, flow, fmt_raw, fmt_out, objs, tasks, pending>>

\* ---------------------------------------------------------------- bounds
MsgCap == 3
MaxFragments == 3
MaxTasks == 2

\* The chat users (update.effective_user.id).  Every handler reads and writes
\* user_sessions under the one id of its update, so two ids show whatever one
\* user's events can do to another's session.
Users == {1, 2}

\* ---------------------------------------------------------------- strings
None == "None"

BS == "\\"
QUOTE == "\""
NL == "\n"
SP == " "

Whitespace == {" ", "\n", "\t", "\r"}

RECURSIVE Flatten(_)
Flatten(ss) == IF ss = <<>> THEN <<>> ELSE Head(ss) \o Flatten(Tail(ss))

StartsWith(s, p) == Len(s) >= Len(p) /\ SubSeq(s, 1, Len(p)) = p

\* str.replace(old, new): leftmost, non-overlapping occurrences, one pass.
RECURSIVE Replace(_, _, _)
Replace(s, old, new) ==
    IF Len(s) < Len(old) THEN s
    ELSE IF StartsWith(s, old)
         THEN new \o Replace(SubSeq(s, Len(old) + 1, Len(s)), old, new)
         ELSE <<Head(s)>> \o Replace(Tail(s), old, new)

RECURSIVE LStrip(_)
LStrip(s) == IF s # <<>> /\ Head(s) \in Whitespace THEN LStrip(Tail(s)) ELSE s

RECURSIVE RStrip(_)
RStrip(s) ==
    IF s # <<>> /\ s[Len(s)] \in Whitespace THEN RStrip(SubSeq(s, 1, Len(s) - 1)) ELSE s

\* str.strip()
Strip(s) == RStrip(LStrip(s))

\* `sub in s`
Contains(s, sub) == \E i \in 1..(Len(s) - Len(sub) + 1) : SubSeq(s, i, i + Len(sub) - 1) = sub

BSN == <<BS, "n">>
OutputLabel == <<"O", "u", "t", "p", "u", "t", ":">>
ResultLabel == <<"R", "e", "s", "u", "l", "t", ":">>

\* ---------------------------------------------------------------- post-processing
\* Each run_* function takes here the text Crew(...).kickoff() returned and gives
\* the value the function returns (an exception of kickoff passes through the
\* function untouched and is handled by the caller).

run_single_formatter_test(result) ==
    Strip(Replace(Replace(Replace(Replace(result, BSN, <<SP>>), <<QUOTE>>, <<>>),
                          OutputLabel, <<>>), ResultLabel, <<>>))

run_combo_formatter_test(result) ==
    Strip(Replace(Replace(Replace(Replace(result, BSN, <<SP>>), <<QUOTE>>, <<>>),
                          OutputLabel, <<>>), ResultLabel, <<>>))

run_instagram_crew_test(result) ==
    Strip(Replace(Replace(result, BSN, <<NL>>), <<QUOTE>>, <<>>))

run_single_formatter_ai_api(result) ==
    Strip(Replace(Replace(Replace(Replace(Strip(result), BSN, <<NL>>), <<QUOTE>>, <<>>),
                          OutputLabel, <<>>), ResultLabel, <<>>))

run_combo_formatter_ai_api(result) ==
    Strip(Replace(Replace(Replace(Replace(Strip(result), BSN, <<NL>>), <<QUOTE>>, <<>>),
                          OutputLabel, <<>>), ResultLabel, <<>>))

run_instagram_crew_ai_api(result) ==
    Strip(Replace(Replace(Strip(result), BSN, <<NL>>), <<QUOTE>>, <<>>))

\* ---------------------------------------------------------------- inputs
\* The text messages a user sends: two per user, no two users sharing one.
Letters == <<"a", "b", "c", "d", "e", "f", "g", "h", "i", "j">>
TextsOf(u) == { <<Letters[2 * u - 1]>>, <<Letters[2 * u]>> }

\* query.data of the four inline buttons of get_main_menu.
Buttons == {"mode_single", "mode_combo", "mode_instagram", "reset"}

\* ---------------------------------------------------------------- remote model
\* Crew(agents=[agent], tasks=[task]).kickoff() is outside the program: it
\* returns some text or raises some exception.
Ret(v) == [ok |-> TRUE, val |-> v]
Raise(m) == [ok |-> FALSE, msg |-> m]

ModelReturns == { <<"x">>, <<SP, QUOTE, "y", BS, "n">> }
ModelRaises == { <<"b", "o", "o", "m">> }

kickoff == { Ret(v) : v \in ModelReturns } \cup { Raise(m) : m \in ModelRaises }

\* ---------------------------------------------------------------- replies
Reply(u, text, menu) == [to |-> u, text |-> text, menu |-> menu]

ErrorPrefix_test == <<"E", "r", "r", "o", "r", ":", " ">>
ErrorPrefix_ai_api == <<"[x]", " ", "E", "r", "r", "o", "r", ":", " ">>

DoneText_test == <<"Done!">>
DoneText_ai_api == <<"--- Done ---">>

\* ---------------------------------------------------------------- history
\* flow[u] describes the flow user u is in: sel says that u pressed a mode button
\* and has sent neither /start nor /menu nor pressed reset since; n counts the
\* text messages of u handled since that mode selection (it stops at MsgCap),
\* first holds the first of them, calls counts the remote-model calls made for u
\* since then.
NoFlow == [sel |-> FALSE, n |-> 0, first |-> <<>>, calls |-> 0]
NewFlow == [sel |-> TRUE, n |-> 0, first |-> <<>>, calls |-> 0]

\* A text message of the user was handled and made ncalls remote-model calls.
Note(f, text, ncalls) ==
    IF f.sel
    THEN [f EXCEPT !.n = IF @ < MsgCap THEN @ + 1 ELSE @,
                   !.first = IF f.n = 0 THEN <<text>> ELSE @,
                   !.calls = @ + ncalls]
    ELSE [f EXCEPT !.calls = @ + ncalls]

\* A bot handler for user u ended: what it did, and the session it left.
ChatDone(handler, u, arg, sessions, calls, raised, sent, escaped) ==
    /\ user_sessions' = sessions
    /\ out' = [kind |-> "chat", handler |-> handler, u |-> u, arg |-> arg,
               calls |-> calls, raised |-> raised, sent |-> sent, escaped |-> escaped]
    /\ UNCHANGED <<variant, fmt_raw, fmt_out, objs, tasks, pending>>

\* One dict stored under every key instead of under user_id alone.
SetItem_shared(sessions, u, d) == [v \in DOMAIN sessions \cup {u} |-> d]

\* user_sessions[user_id] = d
SetItem(sessions, u, d) == (u :> d) @@ sessions

\* ================================================================ src/test.py
\* start with user_sessions.setdefault: an entry that exists keeps its step.
start_test_keep_step(u) ==
    /\ variant = "test"
    /\ ChatDone("start", u, <<>>,
                IF u \in DOMAIN user_sessions THEN user_sessions
                ELSE SetItem(user_sessions, u, [step |-> None, mode |-> None]),
                <<>>, <<>>, <<Reply(u, <<"Dashboard">>, TRUE)>>, FALSE)
    /\ flow' = [flow EXCEPT ![u] = NoFlow]

\* start (also registered for /menu)
start_test(u) ==
    /\ variant = "test"
    /\ ChatDone("start", u, <<>>,
                SetItem(user_sessions, u, [step |-> None, mode |-> None]),
                <<>>, <<>>, <<Reply(u, <<"Dashboard">>, TRUE)>>, FALSE)
    /\ flow' = [flow EXCEPT ![u] = NoFlow]

help_command_test(u) ==
    /\ variant = "test"
    /\ ChatDone("help", u, <<>>, user_sessions, <<>>, <<>>,
                <<Reply(u, <<"help_text">>, FALSE)>>, FALSE)
    /\ UNCHANGED flow

\* handle_callback with reset popping the entry instead of assigning a blank one.
callback_sessions_test_pop(sessions, u, data) ==
    IF data = "reset"
    THEN [v \in DOMAIN sessions \ {u} |-> sessions[v]]
    ELSE SetItem(sessions, u,
                 IF data \in {"mode_single", "mode_combo"}
                 THEN [description |-> <<>>, urls |-> <<>>, step |-> "desc",
                       mode |-> IF data = "mode_single" THEN "single" ELSE "combo"]
                 ELSE [step |-> "insta_single", mode |-> "instagram"])

\* The dict handle_callback builds for a button.
callback_session_test(data) ==
    IF data \in {"mode_single", "mode_combo"}
    THEN [description |-> <<>>, urls |-> <<>>, step |-> "desc",
          mode |-> IF data = "mode_single" THEN "single" ELSE "combo"]
    ELSE IF data = "mode_instagram"
    THEN [step |-> "insta_single", mode |-> "instagram"]
    ELSE [step |-> None, mode |-> None]

\* user_sessions after handle_callback: user_sessions[user_id] = {...}
callback_sessions_test(sessions, u, data) ==
    SetItem(sessions, u, callback_session_test(data))

handle_callback_test(u, data) ==
    /\ variant = "test"
    /\ data \in Buttons
    /\ ChatDone("callback", u, <<data>>,
                callback_sessions_test(user_sessions, u, data),
                <<>>, <<>>,
                <<Reply(u, <<"edit:", data>>, data = "reset")>>, FALSE)
    /\ flow' = [flow EXCEPT ![u] = IF data = "reset" THEN NoFlow ELSE NewFlow]

\* The description stored and the flow closed at once.
store_description_test_skip(session, text) ==
    [session EXCEPT !.description = text, !.step = None]

\* session["description"] = text; session["step"] = "urls"
store_description_test(session, text) ==
    [session EXCEPT !.description = text, !.step = "urls"]

\* session["urls"] = text
store_urls_test(session, text) == [session EXCEPT !.urls = text]

\* The two fields in each other's place.
combined_test_swapped(session) ==
    <<"D", "A", "T", "A", ":", " ">> \o session.urls
        \o <<NL, "U", "R", "L", "S", ":", " ">> \o session.description

\* f"DATA: {session['description']}\nURLS: {session['urls']}"
combined_test(session) ==
    <<"D", "A", "T", "A", ":", " ">> \o session.description
        \o <<NL, "U", "R", "L", "S", ":", " ">> \o session.urls

\* What a call of run_<fn>(product_input) does, kickoff having done o: the
\* post-processed text is returned, or kickoff's exception propagates.
run_test(fn, o) ==
    IF ~o.ok THEN o
    ELSE Ret(CASE fn = "run_single_formatter" -> run_single_formatter_test(o.val)
               [] fn = "run_combo_formatter" -> run_combo_formatter_test(o.val)
               [] OTHER -> run_instagram_crew_test(o.val))

\* The remote call without its except clause.
try_reply_test_no_except(u, res) ==
    IF res.ok
    THEN [sent |-> <<Reply(u, res.val, FALSE)>>, escaped |-> FALSE]
    ELSE [sent |-> <<>>, escaped |-> TRUE]

\* The try/except around the remote call, res being what run_<fn> did: the
\* replies sent and whether an exception leaves the handler.
try_reply_test(u, res) ==
    IF res.ok
    THEN [sent |-> <<Reply(u, res.val, FALSE)>>, escaped |-> FALSE]
    ELSE [sent |-> <<Reply(u, ErrorPrefix_test \o res.msg, FALSE)>>, escaped |-> FALSE]

\* The step left as it was.
finish_flow_test_keep(session) == session

\* The whole entry blanked instead of the step alone.
finish_flow_test_discard(session) == [step |-> None, mode |-> None]

\* session["step"] = None
finish_flow_test(session) == [session EXCEPT !.step = None]

\* The tail of a branch that called the model: reset the step and show the menu,
\* unless an exception is on its way out.
MessageCalled_test(u, text, session, fn, input, r, o) ==
    /\ ChatDone("message", u, text,
                SetItem(user_sessions, u,
                        IF r.escaped THEN session ELSE finish_flow_test(session)),
                <<[fn |-> fn, input |-> input]>>,
                IF o.ok THEN <<>> ELSE <<o.msg>>,
                IF r.escaped THEN r.sent
                ELSE r.sent \o <<Reply(u, DoneText_test, TRUE)>>,
                r.escaped)
    /\ flow' = [flow EXCEPT ![u] = Note(@, text, 1)]

MessageQuiet_test(u, text, sessions, sent) ==
    /\ ChatDone("message", u, text, sessions, <<>>, <<>>, sent, FALSE)
    /\ flow' = [flow EXCEPT ![u] = Note(@, text, 0)]

handle_message_test(u, text) ==
    /\ variant = "test"
    /\ IF u \notin DOMAIN user_sessions
       THEN MessageQuiet_test(u, text, user_sessions, <<>>)
       ELSE LET session == user_sessions[u] IN
            IF session.step = None
            THEN MessageQuiet_test(u, text, user_sessions, <<>>)
            ELSE IF session.mode \in {"single", "combo"}
            THEN IF session.step = "desc"
                 THEN MessageQuiet_test(u, text,
                          SetItem(user_sessions, u, store_description_test(session, text)),
                          <<Reply(u, <<"Details saved. Step 2/2">>, FALSE)>>)
                 ELSE IF session.step = "urls"
                 THEN \E o \in kickoff :
                          LET s1 == store_urls_test(session, text)
                              fn == IF session.mode = "single" THEN "run_single_formatter"
                                    ELSE "run_combo_formatter"
                          IN  MessageCalled_test(u, text, s1, fn, combined_test(s1),
                                  try_reply_test(u, run_test(fn, o)), o)
                 ELSE MessageQuiet_test(u, text, user_sessions, <<>>)
            ELSE IF session.mode = "instagram"
            THEN \E o \in kickoff :
                     MessageCalled_test(u, text, session, "run_instagram_crew", text,
                         try_reply_test(u, run_test("run_instagram_crew", o)), o)
            ELSE MessageQuiet_test(u, text, user_sessions, <<>>)

\* ================================================================ src/ai_api.py
\* start (also registered for /menu)
start_ai_api(u) ==
    /\ variant = "ai_api"
    /\ ChatDone("start", u, <<>>,
                SetItem(user_sessions, u, [step |-> None, mode |-> None]),
                <<>>, <<>>, <<Reply(u, <<"Select a tool below">>, TRUE)>>, FALSE)
    /\ flow' = [flow EXCEPT ![u] = NoFlow]

\* The dict handle_callback assigns to user_sessions[user_id] for a button.
callback_session_ai_api(data) ==
    IF data = "mode_single" THEN [step |-> "input", mode |-> "single"]
    ELSE IF data = "mode_combo" THEN [step |-> "input", mode |-> "combo"]
    ELSE IF data = "mode_instagram" THEN [step |-> "input", mode |-> "instagram"]
    ELSE [step |-> None, mode |-> None]

handle_callback_ai_api(u, data) ==
    /\ variant = "ai_api"
    /\ data \in Buttons
    /\ ChatDone("callback", u, <<data>>,
                SetItem(user_sessions, u, callback_session_ai_api(data)),
                <<>>, <<>>,
                <<Reply(u, <<"edit:", data>>, data = "reset")>>, FALSE)
    /\ flow' = [flow EXCEPT ![u] = IF data = "reset" THEN NoFlow ELSE NewFlow]

run_ai_api(fn, o) ==
    IF ~o.ok THEN o
    ELSE Ret(CASE fn = "run_single_formatter" -> run_single_formatter_ai_api(o.val)
               [] fn = "run_combo_formatter" -> run_combo_formatter_ai_api(o.val)
               [] OTHER -> run_instagram_crew_ai_api(o.val))

\* The try/except around the remote call, res being what run_<fn> did.
try_reply_ai_api(u, res) ==
    IF res.ok
    THEN [sent |-> <<Reply(u, res.val, FALSE)>>, escaped |-> FALSE]
    ELSE [sent |-> <<Reply(u, ErrorPrefix_ai_api \o res.msg, FALSE)>>, escaped |-> FALSE]

\* session["step"] = None
finish_flow_ai_api(session) == [session EXCEPT !.step = None]

handle_message_ai_api(u, text) ==
    /\ variant = "ai_api"
    /\ IF u \notin DOMAIN user_sessions \/ user_sessions[u].step = None
       THEN /\ ChatDone("message", u, text, user_sessions, <<>>, <<>>,
                        <<Reply(u, <<"Please select a mode from the menu:">>, TRUE)>>, FALSE)
            /\ flow' = [flow EXCEPT ![u] = Note(@, text, 0)]
       ELSE \E o \in kickoff :
                LET session == user_sessions[u]
                    fn == IF session.mode = "single" THEN "run_single_formatter"
                          ELSE IF session.mode = "combo" THEN "run_combo_formatter"
                          ELSE "run_instagram_crew"
                    r == try_reply_ai_api(u, run_ai_api(fn, o))
                IN  /\ ChatDone("message", u, text,
                                SetItem(user_sessions, u,
                                        IF r.escaped THEN session
                                        ELSE finish_flow_ai_api(session)),
                                <<[fn |-> fn, input |-> text]>>,
                                IF o.ok THEN <<>> ELSE <<o.msg>>,
                                IF r.escaped THEN r.sent
                                ELSE r.sent \o <<Reply(u, DoneText_ai_api, TRUE)>>,
                                r.escaped)
                    /\ flow' = [flow EXCEPT ![u] = Note(@, text, 1)]

\* ================================================================ HTTP
\* The routes each file registers on its FastAPI app: one decorator each.
routes_test == { [method |-> "GET", path |-> "/health"] }
routes_ai_api == { [method |-> "GET", path |-> "/health"] }

\* health() of src/ai_api.py reporting another status.
health_ai_api_down == [status |-> "down", message |-> "Server is awake"]

\* The endpoint functions.
health_test == [status |-> "ok"]
health_ai_api == [status |-> "ok", message |-> "Server is awake"]

Paths == {"/health", "/format-product"}

\* Request bodies: none, a JSON object {"text": t}, raw text t, bytes that are
\* neither JSON nor text.
Bodies == { [kind |-> "empty", text |-> <<>>], [kind |-> "garbage", text |-> <<>>] }
          \cup { [kind |-> k, text |-> <<c>>] : k \in {"json", "raw"}, c \in {"a"} }

\* The requests sent: a GET carries no body.
Requests ==
    { [method |-> "GET", path |-> p, body |-> [kind |-> "empty", text |-> <<>>]] : p \in Paths }
    \cup { [method |-> "POST", path |-> p, body |-> b] : p \in Paths, b \in Bodies }

\* The framework's routing over the registered routes: the endpoint's return
\* value as a 200 JSON response, 405 for a known path under another method,
\* 404 for an unknown path.
Respond(routes, endpoint, method, path) ==
    IF [method |-> method, path |-> path] \in routes
    THEN [status |-> 200, body |-> endpoint]
    ELSE IF \E r \in routes : r.path = path
    THEN [status |-> 405, body |-> [detail |-> "Method Not Allowed"]]
    ELSE [status |-> 404, body |-> [detail |-> "Not Found"]]

HttpDone(method, path, body, resp) ==
    /\ out' = [kind |-> "http", method |-> method, path |-> path, req |-> body,
               status |-> resp.status, body |-> resp.body, calls |-> <<>>]
    /\ UNCHANGED <<variant, user_sessions, flow, fmt_raw, fmt_out, objs, tasks, pending>>

http_request_test(method, path, body) ==
    /\ variant = "test"
    /\ HttpDone(method, path, body, Respond(routes_test, health_test, method, path))

http_request_ai_api(method, path, body) ==
    /\ variant = "ai_api"
    /\ HttpDone(method, path, body, Respond(routes_ai_api, health_ai_api, method, path))

\* ================================================================ specification
\* No handler is suspended, no dict is tracked by identity.
NoInterleaving ==
    /\ objs = [u \in Users |-> <<>>]
    /\ tasks = EmptyBag
    /\ pending = [u \in Users |-> <<>>]

Init ==
    /\ variant \in {"test", "ai_api"}
    /\ user_sessions = <<>>
    /\ out = [kind |-> "none"]
    /\ flow = [u \in Users |-> NoFlow]
    /\ fmt_raw = <<>>
    /\ fmt_out = [fn |-> "none"]
    /\ NoInterleaving

Next ==
    \/ \E u \in Users : start_test(u)
    \/ \E u \in Users : help_command_test(u)
    \/ \E u \in Users, data \in Buttons : handle_callback_test(u, data)
    \/ \E u \in Users : \E text \in TextsOf(u) : handle_message_test(u, text)
    \/ \E u \in Users : start_ai_api(u)
    \/ \E u \in Users, data \in Buttons : handle_callback_ai_api(u, data)
    \/ \E u \in Users : \E text \in TextsOf(u) : handle_message_ai_api(u, text)
    \/ \E q \in Requests : http_request_test(q.method, q.path, q.body)
    \/ \E q \in Requests : http_request_ai_api(q.method, q.path, q.body)

Spec == Init /\ [][Next]_vars

\* ================================================================ post-processing alone
\* The texts the remote model returns here: up to MaxFragments pieces, among
\* them the characters and labels the post-processing looks for and the halves
\* of those labels.
Fragments ==
    { <<BS>>, <<"n">>, <<QUOTE>>, <<SP>>, <<"x">>, OutputLabel, ResultLabel,
      <<"O", "u", "t">>, <<"p", "u", "t", ":">> }

RawTexts == { Flatten(fs) : fs \in UNION { [1..k -> Fragments] : k \in 0..MaxFragments } }

\* run_<fn>(...) of src/test.py returns, kickoff having returned fmt_raw.
postprocess_test(fn) ==
    /\ variant = "test"
    /\ fmt_out' = [fn |-> fn, val |-> run_test(fn, Ret(fmt_raw)).val]
    /\ UNCHANGED <<variant, user_sessions, out, flow, fmt_raw, objs, tasks, pending>>

\* run_<fn>(...) of src/ai_api.py returns, kickoff having returned fmt_raw.
postprocess_ai_api(fn) ==
    /\ variant = "ai_api"
    /\ fmt_out' = [fn |-> fn, val |-> run_ai_api(fn, Ret(fmt_raw)).val]
    /\ UNCHANGED <<variant, user_sessions, out, flow, fmt_raw, objs, tasks, pending>>

Functions == {"run_single_formatter", "run_combo_formatter", "run_instagram_crew"}

InitFormat ==
    /\ variant \in {"test", "ai_api"}
    /\ user_sessions = <<>>
    /\ out = [kind |-> "none"]
    /\ flow = [u \in Users |-> NoFlow]
    /\ fmt_raw \in RawTexts
    /\ fmt_out = [fn |-> "none"]
    /\ NoInterleaving

NextFormat ==
    \/ \E fn \in Functions : postprocess_test(fn)
    \/ \E fn \in Functions : postprocess_ai_api(fn)

SpecFormat == InitFormat /\ [][NextFormat]_vars

\* ================================================================ handlers interleaved
\* The same handlers as coroutines: each runs from one await to the next, and
\* any other handler may run in between.  A dict has an identity here: objs[u]
\* lists the dicts that were assigned to user_sessions[u] and are still referred
\* to, oldest first; the last one is the dict user_sessions[u] refers to (every
\* assignment stores a new dict, no key is removed), the others are held only by
\* suspended handle_message coroutines, in their local `session`.  A suspended
\* handler is a record in the bag tasks; its session is an index into objs[u].

\* The users whose handlers interleave here: one, whose handlers race with one
\* another on his own key; another user's handlers touch other keys only.
Racers == {1}

\* The text messages sent here: one per user (no claim about interleaved
\* handlers depends on what a message says).
RaceTextsOf(u) == { <<Letters[2 * u - 1]>> }

\* user_sessions as the program reads it: each key with its dict's contents.
View(o) == [u \in { v \in Users : o[v] # <<>> } |-> o[u][Len(o[u])]]

\* The dicts of u still referred to: the one of user_sessions, those of tasks.
Held(o, ts, u) ==
    { i \in 1..Len(o[u]) :
        \/ i = Len(o[u])
        \/ \E t \in BagToSet(ts) : t.kind = "message" /\ t.u = u /\ t.session = i }

Rank(o, ts, u, i) == Cardinality({ j \in Held(o, ts, u) : j <= i })

\* Garbage collection: dicts nothing refers to are dropped, the rest keep
\* their order.
Collect(o, ts) ==
    [u \in Users |->
        [k \in 1..Cardinality(Held(o, ts, u)) |->
            o[u][CHOOSE i \in Held(o, ts, u) : Rank(o, ts, u, i) = k]]]

Moved(o, ts, t) ==
    IF t.kind = "message" THEN [t EXCEPT !.session = Rank(o, ts, t.u, @)] ELSE t

CollectTasks(o, ts) ==
    [x \in { Moved(o, ts, t) : t \in BagToSet(ts) } |->
        ts[CHOOSE t \in BagToSet(ts) : Moved(o, ts, t) = x]]

Commit(o, ts, p, o_out) ==
    /\ objs' = Collect(o, ts)
    /\ tasks' = CollectTasks(o, ts)
    /\ pending' = p
    /\ user_sessions' = View(o)
    /\ out' = o_out
    /\ UNCHANGED <<variant, flow, fmt_raw, fmt_out>>

Quiet == [kind |-> "none"]

Suspend(ts, t) == ts (+) SetToBag({t})
Resume(ts, t) == ts (-) SetToBag({t})
CanSuspend == BagCardinality(tasks) < MaxTasks

\* user_sessions[user_id] = d, d a new dict.
Assign(o, u, d) == [o EXCEPT ![u] = Append(@, d)]

\* start: the assignment is made before the handler's only await.
start_interleaved(u) ==
    Commit(Assign(objs, u, [step |-> None, mode |-> None]), tasks,
           [pending EXCEPT ![u] = <<>>], Quiet)

\* handle_callback up to `await query.answer()`.
handle_callback_begin(u, data) ==
    /\ CanSuspend
    /\ Commit(objs, Suspend(tasks, [kind |-> "callback", u |-> u, arg |-> data]),
              pending, Quiet)

\* A mode button was pressed for user u: the handle_message coroutines of u
\* that are suspended now have been overtaken by a mode selection.
Overtake(ts, u) ==
    LET mark(t) == IF t.kind = "message" /\ t.u = u THEN [t EXCEPT !.overtaken = TRUE] ELSE t
    IN  [x \in { mark(t) : t \in BagToSet(ts) } |->
            LET same == { t \in BagToSet(ts) : mark(t) = x }
                one == CHOOSE t \in same : TRUE
            IN  IF Cardinality(same) = 1 THEN ts[one]
                ELSE ts[one] + ts[CHOOSE t \in same \ {one} : TRUE]]

\* handle_callback from query.answer() on: a new dict is assigned to
\* user_sessions[user_id]; nothing follows the last await.
handle_callback_resume(t) ==
    /\ t.kind = "callback"
    /\ LET d == IF variant = "test" THEN callback_session_test(t.arg)
                ELSE callback_session_ai_api(t.arg)
           rest == Resume(tasks, t)
       IN  Commit(Assign(objs, t.u, d),
                  IF t.arg = "reset" THEN rest ELSE Overtake(rest, t.u),
                  [pending EXCEPT ![t.u] = IF t.arg = "reset" THEN <<>> ELSE <<d>>],
                  Quiet)

MessageTask(u, sid) ==
    [kind |-> "message", u |-> u, session |-> sid, pc |-> "typing", overtaken |-> FALSE]

\* handle_message up to its first await: session = user_sessions.get(user_id),
\* the early return, the description stored (src/test.py), or the handler
\* suspended at send_chat_action with the dict it read.
handle_message_begin(u, text) ==
    /\ CanSuspend
    /\ IF objs[u] = <<>> \/ objs[u][Len(objs[u])].step = None
       THEN Commit(objs, tasks, pending, Quiet)
       ELSE LET sid == Len(objs[u])
                session == objs[u][sid]
                used == [pending EXCEPT ![u] = <<>>]
                suspended == Suspend(tasks, MessageTask(u, sid))
            IN  IF variant = "ai_api"
                THEN Commit(objs, suspended, used, Quiet)
                ELSE IF session.mode \in {"single", "combo"}
                THEN IF session.step = "desc"
                     THEN Commit([objs EXCEPT ![u][sid] = store_description_test(session, text)],
                                 tasks, used, Quiet)
                     ELSE IF session.step = "urls"
                     THEN Commit([objs EXCEPT ![u][sid] = store_urls_test(session, text)],
                                 suspended, used, Quiet)
                     ELSE Commit(objs, tasks, used, Quiet)
                ELSE IF session.mode = "instagram"
                THEN Commit(objs, suspended, used, Quiet)
                ELSE Commit(objs, tasks, used, Quiet)

\* handle_message from send_chat_action to the reply: the remote call inside
\* try/except, then `await update.message.reply_text(...)`.
handle_message_call(t) ==
    /\ t.kind = "message" /\ t.pc = "typing"
    /\ \E o \in kickoff :
           LET session == objs[t.u][t.session]
               fn == IF session.mode = "single" THEN "run_single_formatter"
                     ELSE IF session.mode = "combo" THEN "run_combo_formatter"
                     ELSE "run_instagram_crew"
               r == IF variant = "test" THEN try_reply_test(t.u, run_test(fn, o))
                    ELSE try_reply_ai_api(t.u, run_ai_api(fn, o))
           IN  Commit(objs,
                      IF r.escaped THEN Resume(tasks, t)
                      ELSE Suspend(Resume(tasks, t), [t EXCEPT !.pc = "replied"]),
                      pending, Quiet)

\* The step reset through user_sessions[user_id] instead of through `session`.
finish_target_lookup(o, t) == Len(o[t.u])

\* session["step"] = None is written to the dict the handler holds in `session`.
finish_target(o, t) == t.session

\* handle_message from the reply on: session["step"] = None and the closing
\* menu, the handler's last await.
handle_message_finish(t) ==
    /\ t.kind = "message" /\ t.pc = "replied"
    /\ Commit([objs EXCEPT ![t.u][finish_target(objs, t)] =
                   IF variant = "test" THEN finish_flow_test(@) ELSE finish_flow_ai_api(@)],
              Resume(tasks, t), pending,
              [kind |-> "task", handler |-> "message", u |-> t.u, overtaken |-> t.overtaken])

NextInterleaved ==
    \/ \E u \in Racers : start_interleaved(u)
    \/ \E u \in Racers, data \in Buttons : handle_callback_begin(u, data)
    \/ \E t \in BagToSet(tasks) : handle_callback_resume(t)
    \/ \E u \in Racers : \E text \in RaceTextsOf(u) : handle_message_begin(u, text)
    \/ \E t \in BagToSet(tasks) : handle_message_call(t)
    \/ \E t \in BagToSet(tasks) : handle_message_finish(t)

SpecInterleaved == Init /\ [][NextInterleaved]_vars

\* ================================================================ claims

IsHttp(method, path) == out.kind = "http" /\ out.method = method /\ out.path = path
IsFormatProduct == IsHttp("POST", "/format-product")
IsMessage == out.kind = "chat" /\ out.handler = "message"
\* The latest event was a text message for which the remote model was called.
IsRoundTrip == IsMessage /\ out.calls # <<>>

ErrorPrefix == IF variant = "test" THEN ErrorPrefix_test ELSE ErrorPrefix_ai_api
DoneText == IF variant = "test" THEN DoneText_test ELSE DoneText_ai_api

\* C1 (as claimed): GET /health responds with exactly the JSON object
\* {"status": "ok"}, in src/test.py and in src/ai_api.py.
C1_HealthExactlyStatusOk ==
    IsHttp("GET", "/health") => out.status = 200 /\ out.body = [status |-> "ok"]

\* C1 (amended): in every state of the service GET /health responds 200 with a
\* JSON object whose status is "ok": {"status": "ok"} in src/test.py, and
\* {"status": "ok", "message": "Server is awake"} in src/ai_api.py; handling an
\* HTTP request changes no session.
C1_HealthStatusOk ==
    /\ [](IsHttp("GET", "/health") =>
            /\ out.status = 200
            /\ out.body.status = "ok"
            /\ out.body = IF variant = "test" THEN [status |-> "ok"]
                          ELSE [status |-> "ok", message |-> "Server is awake"])
    /\ [][out'.kind = "http" => user_sessions' = user_sessions]_vars

\* C1 witness: /health answered while a user is in the middle of a flow.
C1_Witness ==
    /\ IsHttp("GET", "/health")
    /\ \E u \in DOMAIN user_sessions : user_sessions[u].step \notin {None}

\* C2: a POST /format-product whose body is {"text": t} or the raw text t makes
\* the remote-model call on t and is answered 200 with a JSON object that has a
\* field formatted_text.
C2_FormatProductOk ==
    IsFormatProduct /\ out.req.kind \in {"json", "raw"} =>
        /\ out.status = 200
        /\ "formatted_text" \in DOMAIN out.body
        /\ out.calls = <<out.req.text>>

\* C3: a POST /format-product with an empty or unparseable body is answered 400
\* with an error message, and no remote-model call is made for it.
C3_FormatProductBadBody ==
    IsFormatProduct /\ out.req.kind \in {"empty", "garbage"} =>
        /\ out.status = 400
        /\ DOMAIN out.body # {}
        /\ out.calls = <<>>

\* C4: when the remote-model call made by handle_message raises, the exception's
\* message is sent as a reply to the same user, no exception leaves the handler,
\* the session step is None afterwards and the last reply is the closing menu.
C4_ErrorEchoed ==
    IsMessage /\ out.raised # <<>> =>
        /\ ~out.escaped
        /\ \E i \in 1..Len(out.sent) :
               /\ out.sent[i].to = out.u
               /\ StartsWith(out.sent[i].text, ErrorPrefix)
               /\ Contains(out.sent[i].text, out.raised[1])
        /\ out.u \in DOMAIN user_sessions
        /\ user_sessions[out.u].step = None
        /\ out.sent # <<>>
        /\ out.sent[Len(out.sent)] = Reply(out.u, DoneText, TRUE)

\* C4 witness: the call raised in a combo flow (src/test.py) or in an instagram
\* flow (src/ai_api.py).
C4_Witness ==
    /\ IsMessage /\ out.raised # <<>>
    /\ user_sessions[out.u].mode = IF variant = "test" THEN "combo" ELSE "instagram"

\* C5: for each user at most one remote-model call is made between two mode
\* selections: none while no mode is selected, at most one since the selection,
\* and once it was made the step is None, whatever text follows.
C5_NoRetry ==
    \A u \in Users :
        /\ flow[u].calls <= 1
        /\ ~flow[u].sel => flow[u].calls = 0
        /\ flow[u].calls = 1 => u \in DOMAIN user_sessions /\ user_sessions[u].step = None

\* C5 witness: after the call of a flow, MsgCap or more text messages of the
\* user were handled and the latest made no call.
C5_Witness ==
    /\ IsMessage /\ out.calls = <<>>
    /\ flow[out.u].calls = 1 /\ flow[out.u].n = MsgCap

C6_Input(first, second) ==
    <<"D", "A", "T", "A", ":", " ">> \o first \o <<NL, "U", "R", "L", "S", ":", " ">> \o second

\* C6: in src/test.py, in single or combo mode, the first text message since the
\* mode selection is stored as the description and makes no call; the call is
\* made on the second and on no other, with "DATA: <first>\nURLS: <second>".
C6_CallOnSecondMessage ==
    variant = "test" /\ IsMessage /\ flow[out.u].sel
            /\ user_sessions[out.u].mode \in {"single", "combo"} =>
        LET f == flow[out.u]
            fn == IF user_sessions[out.u].mode = "single" THEN "run_single_formatter"
                  ELSE "run_combo_formatter"
        IN  /\ f.n = 1 => /\ out.calls = <<>>
                          /\ user_sessions[out.u].description = out.arg
                          /\ f.first = <<out.arg>>
            /\ f.n = 2 => out.calls = <<[fn |-> fn, input |-> C6_Input(f.first[1], out.arg)]>>
            /\ f.n > 2 => out.calls = <<>>

\* C6 witness: the call of a single flow, its two messages being different texts.
C6_Witness ==
    /\ variant = "test" /\ IsRoundTrip
    /\ user_sessions[out.u].mode = "single"
    /\ flow[out.u].first # <<out.arg>>

\* C7 (as claimed): once handle_message has sent the model's reply or the error
\* for a flow, user_sessions holds no description and no urls of that user.
C7_DataDiscarded ==
    IsRoundTrip =>
        LET s == user_sessions[out.u]
        IN  /\ "description" \in DOMAIN s => s.description = <<>>
            /\ "urls" \in DOMAIN s => s.urls = <<>>

\* C7 (amended): once handle_message has sent the model's reply or the error for
\* a flow, only the step is reset to None: the user's entry keeps its mode and,
\* in src/test.py for single and combo, the description and urls of that flow.
C7_StepResetDataKept ==
    IsRoundTrip =>
        LET s == user_sessions[out.u]
            fn == out.calls[1].fn
        IN  /\ s.step = None
            /\ s.mode = CASE fn = "run_single_formatter" -> "single"
                          [] fn = "run_combo_formatter" -> "combo"
                          [] OTHER -> "instagram"
            /\ variant = "test" /\ s.mode \in {"single", "combo"} =>
                   /\ s.description = flow[out.u].first[1]
                   /\ s.urls = out.arg

\* C7 witness: a single or combo flow of src/test.py has made its round trip.
C7_Witness ==
    /\ variant = "test" /\ IsRoundTrip
    /\ user_sessions[out.u].mode \in {"single", "combo"}

\* C8: user_sessions has no eviction: every key stays a key.
C8_KeysOnlyGrow ==
    [][DOMAIN user_sessions \subseteq DOMAIN user_sessions']_vars

\* C8 witness: every user is a key and the latest event was a reset button.
C8_Witness ==
    /\ DOMAIN user_sessions = Users
    /\ out.kind = "chat" /\ out.handler = "callback" /\ out.arg = <<"reset">>

Edges_test ==
    { <<m, "desc", "urls">> : m \in {"single", "combo"} }
    \cup { <<m, "urls", None>> : m \in {"single", "combo"} }
    \cup { <<"instagram", "insta_single", None>> }

Edges_ai_api == { <<m, "input", None>> : m \in {"single", "combo", "instagram"} }

\* C10: a text message changes the sender's step only along desc -> urls -> None
\* (single, combo) or insta_single -> None (instagram) in src/test.py and along
\* input -> None in src/ai_api.py; it never changes the mode and never adds or
\* removes the entry.
C10_LinearSteps ==
    [][out'.kind = "chat" /\ out'.handler = "message" =>
          LET u == out'.u IN
          IF u \notin DOMAIN user_sessions THEN u \notin DOMAIN user_sessions'
          ELSE /\ u \in DOMAIN user_sessions'
               /\ user_sessions'[u].mode = user_sessions[u].mode
               /\ \/ user_sessions'[u].step = user_sessions[u].step
                  \/ <<user_sessions[u].mode, user_sessions[u].step, user_sessions'[u].step>>
                       \in (IF variant = "test" THEN Edges_test ELSE Edges_ai_api)
      ]_vars

\* C10 witness: a text message has moved a combo flow from desc to urls.
C10_Witness ==
    /\ variant = "test" /\ IsMessage
    /\ out.u \in DOMAIN user_sessions
    /\ user_sessions[out.u].mode = "combo" /\ user_sessions[out.u].step = "urls"

\* C9: for every text the remote model can return, the value run_single_formatter,
\* run_combo_formatter and run_instagram_crew return contains no double-quote
\* character and no literal backslash-n sequence, and for the single and combo
\* formatters no "Output:" and no "Result:".
C9_NoEscapesQuotesLabels ==
    fmt_out.fn # "none" =>
        /\ ~Contains(fmt_out.val, <<QUOTE>>)
        /\ ~Contains(fmt_out.val, BSN)
        /\ fmt_out.fn \in {"run_single_formatter", "run_combo_formatter"} =>
               /\ ~Contains(fmt_out.val, OutputLabel)
               /\ ~Contains(fmt_out.val, ResultLabel)

\* The user of the latest event has no active step: no entry, or step None.
Idle(u) == u \notin DOMAIN user_sessions \/ user_sessions[u].step = None

\* C11: a text message from a user who has no entry or whose step is None makes
\* no remote-model call and leaves user_sessions unchanged; /start, /menu and
\* the reset button leave the user's step None from any state, so the next text
\* message makes no call.
C11_CallOnlyWhileActive ==
    /\ [][out'.kind = "chat" /\ out'.handler = "message" /\ Idle(out'.u) =>
             out'.calls = <<>> /\ user_sessions' = user_sessions]_vars
    /\ [](out.kind = "chat"
            /\ (out.handler = "start" \/ (out.handler = "callback" /\ out.arg = <<"reset">>)) =>
             out.u \in DOMAIN user_sessions /\ user_sessions[out.u].step = None)
    /\ [][out.kind = "chat" /\ out'.kind = "chat" /\ out'.handler = "message"
             /\ out'.u = out.u
             /\ (out.handler = "start" \/ (out.handler = "callback" /\ out.arg = <<"reset">>)) =>
             out'.calls = <<>> /\ user_sessions' = user_sessions]_vars

\* C11 witness: a text message was handled for a user whose entry is the blank
\* one /start, /menu and reset leave, and it made no call.
C11_Witness ==
    /\ IsMessage /\ out.calls = <<>>
    /\ out.u \in DOMAIN user_sessions
    /\ user_sessions[out.u] = [step |-> None, mode |-> None]

\* C13: an event of user u leaves the entry of every other user as it was, and
\* the input passed to the remote model for u holds no text another user sent.
C13_PerUser ==
    /\ [][out'.kind = "chat" =>
             \A v \in Users \ {out'.u} :
                 /\ v \in DOMAIN user_sessions <=> v \in DOMAIN user_sessions'
                 /\ v \in DOMAIN user_sessions => user_sessions'[v] = user_sessions[v]]_vars
    /\ [](IsRoundTrip =>
             \A v \in Users \ {out.u} : \A t \in TextsOf(v) :
                 ~Contains(out.calls[1].input, t))

\* C13 witness: the model was called for one user while another user's flow
\* holds a stored description.
C13_Witness ==
    /\ IsRoundTrip
    /\ \E v \in DOMAIN user_sessions \ {out.u} :
           /\ user_sessions[v].step = "urls"
           /\ user_sessions[v].description # <<>>

FirstSteps == {"desc", "insta_single", "input"}

\* C12: with handlers interleaved at their awaits, a mode selection is not
\* lost: while no later text message, /start, /menu or reset of the user has
\* used or replaced it, user_sessions[u] is the dict the mode button assigned,
\* with its first step, also after a handle_message that was suspended during
\* the selection has finished and written its session["step"] = None.
C12_SelectionNotLost ==
    \A u \in Users :
        pending[u] # <<>> =>
            /\ u \in DOMAIN user_sessions
            /\ user_sessions[u] = pending[u][1]
            /\ user_sessions[u].step \in FirstSteps
            /\ user_sessions[u].mode \in {"single", "combo", "instagram"}

\* C12 witness: a handle_message overtaken by a mode selection of its user has
\* just finished, and that selection is still the pending one.
C12_Witness ==
    /\ out.kind = "task" /\ out.handler = "message" /\ out.overtaken
    /\ pending[out.u] # <<>>

====
